---------------------------- MODULE Spec2Model ----------------------------
(***************************************************************************)
(* Order placement of mohsenjafari-aiio/golangbackend.                     *)
(*                                                                         *)
(* PlaceOrderHandler.Handle looks a user and a product up, reserves stock  *)
(* on the in-memory product, creates and confirms an order, writes the     *)
(* stock back and saves the order.  The handler runs against one of the    *)
(* two sets of repositories of the source: the GORM adapters (GetByID      *)
(* scans a row into a fresh struct) or the mocks of the unit tests         *)
(* (GetByID returns the pointer kept in the map).  Each collaborator call  *)
(* is one step, so that calls of concurrent requests interleave.           *)
(***************************************************************************)
EXTENDS Integers, Sequences, FiniteSets, TLC

(***************************************************************************)
(* Bounds of the model.                                                    *)
(***************************************************************************)
\* Width of Go's int, scaled down (64 in the build): Stock and Quantity wrap.
IntBits == 4
\* Initial stock of a product is drawn from 0..MaxStock.
MaxStock == 2
\* Number of Handle calls started in one behaviour.
MaxCalls == 2

RECURSIVE Pow2(_)
Pow2(n) == IF n = 0 THEN 1 ELSE 2 * Pow2(n - 1)

Modulus == Pow2(IntBits)
MinInt == 0 - Pow2(IntBits - 1)
MaxInt == Pow2(IntBits - 1) - 1

\* Two's complement wrap-around of Go's int arithmetic.
Wrap(n) == ((n - MinInt) % Modulus) + MinInt

\* p.Stock -= qty on Go ints.
SubInt(a, b) == Wrap(a - b)

(***************************************************************************)
(* Values.                                                                 *)
(***************************************************************************)
Handlers == {1, 2}

\* User 1 and products 1, 2 are stored; 999 is the id the tests use for a
\* missing user or product.
StoredUserIDs == {1}
StoredProductIDs == {1, 2}
MissingID == 999
UserIDs == StoredUserIDs \cup {MissingID}
ProductIDs == StoredProductIDs \cup {MissingID}
Quantities == {MinInt, -1, 0, 1, MaxStock + 1}

\* Handle reads the quantity only after both lookups succeeded: a command that
\* fails a lookup is tried with one quantity.  Product 1 is ordered with every
\* quantity, product 2 (the other product) with one that its stock covers and
\* one that it does not.
Commands ==
    {c \in [UserID : UserIDs, ProductID : ProductIDs, Quantity : Quantities] :
        /\ (c.UserID = MissingID \/ c.ProductID = MissingID) => c.Quantity = 1
        /\ c.ProductID = 2 => c.Quantity \in {1, MaxStock + 1}}

NoErr == "nil"
ErrUserNotFound == "user not found"
ErrProductNotFound == "product not found"
ErrInsufficientStock == "insufficient stock"
\* Errors of the storage behind a repository (r.db...Error, or the mock's err).
ErrUserRepo == "user repository failed"
ErrProductRepo == "product repository failed"
ErrOrderRepo == "database connection failed"
ErrRecordNotFound == "record not found"
\* ctx.Err() of a cancelled context, as database/sql returns it.
ErrCanceled == "context canceled"

NoUser == [ID |-> 0, Active |-> FALSE, Email |-> ""]
NoProduct == [ID |-> 0, Name |-> "", Stock |-> 0]
NoOrder == [ID |-> 0, UserID |-> 0, ProductID |-> 0, Quantity |-> 0, Status |-> ""]
NilRef == [ref |-> "nil", id |-> 0, val |-> NoProduct]
NoCommand == [UserID |-> 0, ProductID |-> 0, Quantity |-> 0]
NoStorage == [products |-> <<>>, orders |-> {}, users |-> <<>>]
NoStep == [op |-> "none", uid |-> 0, pid |-> 0, qty |-> 0,
           product |-> NoProduct, order |-> NoOrder, err |-> NoErr, confirms |-> 0]
\* context.Background(): no call's context is cancelled.
NoCancel == [h |-> 0, calls |-> <<>>, storage |-> NoStorage]
\* NewQueryBuilder(db): no filter, no sort, pagination nil.
NoPagination == [set |-> FALSE, Page |-> 0, PageSize |-> 0]
NewQueryBuilder == [filters |-> <<>>, sorts |-> <<>>, pagination |-> NoPagination]
NoFound == [op |-> "none"]
NoCall == [h |-> 0, cmd |-> NoCommand, result |-> "none", calls |-> <<>>,
           pre |-> NoStorage, post |-> NoStorage, solo |-> TRUE,
           p |-> NilRef, o |-> NoOrder]

VARIABLES
    impl,       \* "gorm" or "mock": the repositories the handler is built with
    users,      \* stored users: id -> User
    products,   \* stored products: id -> Product
    orders,     \* stored orders: a set of Order rows
    stock0,     \* the stock every product started with
    pc,         \* per call: the step of Handle it is at
    cmd,        \* per call: its PlaceOrderCommand
    u,          \* per call: the user GetByID returned
    p,          \* per call: the *Product GetByID returned
    o,          \* per call: the *Order built by NewOrder
    calls,      \* per call: the collaborator operations invoked, with their errors
    pre,        \* per call: the storage when the call started
    solo,       \* per call: no other call was in flight during it
    last,       \* the call that returned last: what it was given, what it
                \* returned and the storage before and after it
    nCalls,     \* calls started so far
    product,    \* the Product a domain operation is applied to on its own
    order,      \* the Order a domain operation is applied to on its own
    step,       \* the domain operation applied last, with what it was given
    ctx,        \* the cancellation the caller made of a Handle call's context
    table,      \* the rows of the table a query runs on
    qb,         \* the QueryBuilder: its filters, sorts and pagination
    found       \* the query operation applied last, with what it returned

vars == <<impl, users, products, orders, stock0, pc, cmd, u, p, o, calls,
          pre, solo, last, nCalls, product, order, step, ctx, table, qb, found>>

\* The part of the state the domain operations are exercised on by themselves.
domainVars == <<product, order, step>>
\* The part of the state Handle and the repositories work on.
handlerVars == <<impl, users, products, orders, stock0, pc, cmd, u, p, o, calls,
                 pre, solo, last, nCalls, ctx>>
\* The part of the state the query package works on.
queryVars == <<table, qb, found>>

InFlight(h) == pc[h] # "idle"


(***************************************************************************)
(* Domain: Product.Reserve, NewOrder, Order.Confirm.                       *)
(***************************************************************************)
\* Reserve that forgets the decrement.
ReserveNoDecrement(prod, qty) ==
    IF prod.Stock < qty
    THEN [p |-> prod, err |-> ErrInsufficientStock]
    ELSE [p |-> prod, err |-> NoErr]

\* Reserve that hands out what is left instead of refusing.
ReserveClamp(prod, qty) ==
    IF prod.Stock < qty
    THEN [p |-> [prod EXCEPT !.Stock = 0], err |-> NoErr]
    ELSE [p |-> [prod EXCEPT !.Stock = SubInt(prod.Stock, qty)], err |-> NoErr]

\* Reserve that refuses a request for everything that is left.
ReserveStrict(prod, qty) ==
    IF prod.Stock <= qty
    THEN [p |-> prod, err |-> ErrInsufficientStock]
    ELSE [p |-> [prod EXCEPT !.Stock = SubInt(prod.Stock, qty)], err |-> NoErr]

\* func (p *Product) Reserve(qty int) error: the product after the call and
\* the error returned.
Reserve(prod, qty) ==
    IF prod.Stock < qty
    THEN [p |-> prod, err |-> ErrInsufficientStock]
    ELSE [p |-> [prod EXCEPT !.Stock = SubInt(prod.Stock, qty)], err |-> NoErr]

\* NewOrder that refuses a quantity below one by taking one.
NewOrderAtLeastOne(userID, productID, quantity) ==
    [ID |-> 0, UserID |-> userID, ProductID |-> productID,
     Quantity |-> IF quantity < 1 THEN 1 ELSE quantity, Status |-> "PENDING"]

\* func NewOrder(userID, productID int64, quantity int) *Order
NewOrder(userID, productID, quantity) ==
    [ID |-> 0, UserID |-> userID, ProductID |-> productID,
     Quantity |-> quantity, Status |-> "PENDING"]

\* Confirm that leaves the status alone.
ConfirmNoop(ord) == ord

\* Confirm that acts on a PENDING order only.
ConfirmOnlyPending(ord) ==
    IF ord.Status = "PENDING" THEN [ord EXCEPT !.Status = "CONFIRMED"] ELSE ord

\* func (o *Order) Confirm()
Confirm(ord) == [ord EXCEPT !.Status = "CONFIRMED"]

(***************************************************************************)
(* Repositories.  fault is the error of the storage at the time of the     *)
(* call: the Error of the gorm statement, or the mock's err field.  It is  *)
(* an input of every call: the database may fail at any statement, and     *)
(* the mock's err is a plain field that whoever holds the mock may set     *)
(* between two calls of the repository, so a Handle call can see           *)
(* ProductRepo.GetByID succeed and ProductRepo.UpdateStock fail.           *)
(***************************************************************************)
\* A lookup that reports a missing row as a zero value and no error.
UserRepoGetByIDNoError(id, fault) ==
    IF fault # NoErr THEN [val |-> NoUser, err |-> fault]
    ELSE IF id \in DOMAIN users THEN [val |-> users[id], err |-> NoErr]
    ELSE [val |-> NoUser, err |-> NoErr]

UserRepoGetByID(id, fault) ==
    IF fault # NoErr THEN [val |-> NoUser, err |-> fault]
    ELSE IF id \in DOMAIN users THEN [val |-> users[id], err |-> NoErr]
    ELSE [val |-> NoUser,
          err |-> IF impl = "mock" THEN ErrUserNotFound ELSE ErrRecordNotFound]

\* A lookup that reports a missing row as a nil pointer's zero value and no error.
ProductRepoGetByIDNoError(id, fault) ==
    IF fault # NoErr THEN [val |-> NilRef, err |-> fault]
    ELSE IF id \in DOMAIN products
    THEN [val |-> IF impl = "mock"
                  THEN [ref |-> "stored", id |-> id, val |-> NoProduct]
                  ELSE [ref |-> "own", id |-> id, val |-> products[id]],
          err |-> NoErr]
    ELSE [val |-> [ref |-> "own", id |-> id, val |-> NoProduct], err |-> NoErr]

\* A lookup that returns the stored struct itself from either repository.
ProductRepoGetByIDShared(id, fault) ==
    IF fault # NoErr THEN [val |-> NilRef, err |-> fault]
    ELSE IF id \in DOMAIN products
    THEN [val |-> [ref |-> "stored", id |-> id, val |-> NoProduct], err |-> NoErr]
    ELSE [val |-> NilRef,
          err |-> IF impl = "mock" THEN ErrProductNotFound ELSE ErrRecordNotFound]

\* The GORM adapter scans the row into a new struct and returns its address;
\* the mock returns the pointer stored in its map.
ProductRepoGetByID(id, fault) ==
    IF fault # NoErr THEN [val |-> NilRef, err |-> fault]
    ELSE IF id \in DOMAIN products
    THEN [val |-> IF impl = "mock"
                  THEN [ref |-> "stored", id |-> id, val |-> NoProduct]
                  ELSE [ref |-> "own", id |-> id, val |-> products[id]],
          err |-> NoErr]
    ELSE [val |-> NilRef,
          err |-> IF impl = "mock" THEN ErrProductNotFound ELSE ErrRecordNotFound]

\* The Product a *Product points to.
Deref(r) == IF r.ref = "stored" THEN products[r.id] ELSE r.val

\* An update that refuses to write over a row whose stock is already lower
\* than the one it brings (a conditional UPDATE).
ProductRepoUpdateStockGuarded(r, fault) ==
    IF fault # NoErr THEN [products |-> products, err |-> fault]
    ELSE IF /\ Deref(r).ID \in DOMAIN products
            /\ products[Deref(r).ID].Stock < Deref(r).Stock
    THEN [products |-> products, err |-> "stock changed"]
    ELSE [products |-> [id \in DOMAIN products \cup {Deref(r).ID} |->
                          IF id = Deref(r).ID THEN Deref(r) ELSE products[id]],
          err |-> NoErr]

\* An update without its WHERE clause: every row takes the stock.
ProductRepoUpdateStockAllRows(r, fault) ==
    IF fault # NoErr THEN [products |-> products, err |-> fault]
    ELSE [products |-> [id \in DOMAIN products |->
                          [products[id] EXCEPT !.Stock = Deref(r).Stock]],
          err |-> NoErr]

\* GORM: UPDATE products SET stock = p.Stock WHERE id = p.ID.
\* Mock: m.products[p.ID] = p.
ProductRepoUpdateStock(r, fault) ==
    IF fault # NoErr THEN [products |-> products, err |-> fault]
    ELSE IF impl = "mock"
    THEN [products |-> [id \in DOMAIN products \cup {Deref(r).ID} |->
                          IF id = Deref(r).ID THEN Deref(r) ELSE products[id]],
          err |-> NoErr]
    ELSE [products |-> [id \in DOMAIN products |->
                          IF id = Deref(r).ID
                          THEN [products[id] EXCEPT !.Stock = Deref(r).Stock]
                          ELSE products[id]],
          err |-> NoErr]

\* An identity counted from zero: len(m.orders).
NextOrderIDFromZero == Cardinality(orders)

\* The identity storage gives a new order: len(m.orders) + 1 in the mock, the
\* next value of the primary key in the database.
NextOrderID == Cardinality(orders) + 1

\* Save that stores the order as a new, PENDING one.
OrderRepoSavePending(ord, fault) ==
    IF fault # NoErr THEN [orders |-> orders, o |-> ord, err |-> fault]
    ELSE LET saved == [ord EXCEPT !.ID = NextOrderID, !.Status = "PENDING"]
         IN  [orders |-> {r \in orders : r.ID # saved.ID} \cup {saved},
              o |-> saved, err |-> NoErr]

\* Mock: o.ID = len(m.orders) + 1; m.orders[o.ID] = o.   GORM: Create(o).
OrderRepoSave(ord, fault) ==
    IF fault # NoErr THEN [orders |-> orders, o |-> ord, err |-> fault]
    ELSE LET saved == [ord EXCEPT !.ID = NextOrderID]
         IN  [orders |-> {r \in orders : r.ID # saved.ID} \cup {saved},
              o |-> saved, err |-> NoErr]

(***************************************************************************)
(* Initial state: the handler is constructed over stored users/products.   *)
(***************************************************************************)
\* No domain operation is exercised on its own.
DomainIdle ==
    /\ product = NoProduct
    /\ order = NoOrder
    /\ step = NoStep

\* No query is built or run.
QueryIdle ==
    /\ table = <<>>
    /\ qb = NewQueryBuilder
    /\ found = NoFound

Init ==
    /\ DomainIdle
    /\ QueryIdle
    /\ ctx = NoCancel
    /\ impl \in {"gorm", "mock"}
    /\ users = [id \in StoredUserIDs |->
                  [ID |-> id, Active |-> TRUE, Email |-> "test@example.com"]]
    /\ \E s \in 0..MaxStock :
         /\ stock0 = [id \in StoredProductIDs |-> IF id = 1 THEN s ELSE MaxStock]
         /\ products = [id \in StoredProductIDs |->
                          [ID |-> id, Name |-> "Test Product", Stock |-> stock0[id]]]
    /\ orders = {}
    /\ pc = [h \in Handlers |-> "idle"]
    /\ cmd = [h \in Handlers |-> NoCommand]
    /\ u = [h \in Handlers |-> NoUser]
    /\ p = [h \in Handlers |-> NilRef]
    /\ o = [h \in Handlers |-> NoOrder]
    /\ calls = [h \in Handlers |-> <<>>]
    /\ pre = [h \in Handlers |-> NoStorage]
    /\ solo = [h \in Handlers |-> TRUE]
    /\ last = NoCall
    /\ nCalls = 0

(***************************************************************************)
(* PlaceOrderHandler.Handle, one action per step.                          *)
(***************************************************************************)
Storage == [products |-> products, orders |-> orders, users |-> users]

\* Handle returns err: its locals are gone, the caller has the error.  log is
\* the call's collaborator log, ref and ord its *Product and *Order at the
\* return.
Return(h, err, log, ref, ord) ==
    /\ last' = [h |-> h, cmd |-> cmd[h], result |-> err, calls |-> log,
                pre |-> pre[h],
                post |-> [products |-> products', orders |-> orders', users |-> users'],
                solo |-> solo[h], p |-> ref, o |-> ord]
    /\ pc' = [pc EXCEPT ![h] = "idle"]
    /\ cmd' = [cmd EXCEPT ![h] = NoCommand]
    /\ u' = [u EXCEPT ![h] = NoUser]
    /\ p' = [p EXCEPT ![h] = NilRef]
    /\ o' = [o EXCEPT ![h] = NoOrder]
    /\ calls' = [calls EXCEPT ![h] = <<>>]
    /\ pre' = [pre EXCEPT ![h] = NoStorage]
    /\ solo' = [solo EXCEPT ![h] = TRUE]

Logged(h, op, err) == Append(calls[h], <<op, err>>)

\* A request arrives: Handle(ctx, c) is entered, in the first goroutine that
\* is free.  The mocks are used by one goroutine (the tests); requests against
\* the database overlap.
Start(h, c) ==
    /\ ~InFlight(h)
    /\ UNCHANGED <<domainVars, queryVars, ctx>>
    /\ \A g \in Handlers : g < h => InFlight(g)
    /\ nCalls < MaxCalls
    /\ impl = "mock" => \A g \in Handlers : ~InFlight(g)
    /\ nCalls' = nCalls + 1
    /\ pc' = [pc EXCEPT ![h] = "getUser"]
    /\ cmd' = [cmd EXCEPT ![h] = c]
    /\ pre' = [pre EXCEPT ![h] = Storage]
    /\ solo' = [g \in Handlers |->
                  IF g = h THEN \A k \in Handlers \ {h} : ~InFlight(k)
                  ELSE IF InFlight(g) THEN FALSE ELSE solo[g]]
    /\ UNCHANGED <<impl, users, products, orders, stock0, u, p, o, calls, last>>

\* A user lookup whose error is handed to the caller as it is.
GetUserPropagate(h, fault) ==
    /\ pc[h] = "getUser"
    /\ UNCHANGED <<domainVars, queryVars, ctx>>
    /\ UNCHANGED <<impl, users, products, orders, stock0, nCalls>>
    /\ LET r == UserRepoGetByID(cmd[h].UserID, fault)
           log == Logged(h, "UserRepo.GetByID", r.err)
       IN  IF r.err # NoErr
           THEN Return(h, r.err, log, p[h], o[h])
           ELSE /\ u' = [u EXCEPT ![h] = r.val]
                /\ calls' = [calls EXCEPT ![h] = log]
                /\ pc' = [pc EXCEPT ![h] = "getProduct"]
                /\ UNCHANGED <<cmd, p, o, pre, solo, last>>

\* A user lookup that takes a user who is not active for a missing one.
GetUserActiveOnly(h, fault) ==
    /\ pc[h] = "getUser"
    /\ UNCHANGED <<domainVars, queryVars, ctx>>
    /\ UNCHANGED <<impl, users, products, orders, stock0, nCalls>>
    /\ LET r == UserRepoGetByID(cmd[h].UserID, fault)
           log == Logged(h, "UserRepo.GetByID", r.err)
       IN  IF r.err # NoErr \/ ~r.val.Active
           THEN Return(h, ErrUserNotFound, log, p[h], o[h])
           ELSE /\ u' = [u EXCEPT ![h] = r.val]
                /\ calls' = [calls EXCEPT ![h] = log]
                /\ pc' = [pc EXCEPT ![h] = "getProduct"]
                /\ UNCHANGED <<cmd, p, o, pre, solo, last>>

\* A user lookup whose failure is reported as a missing product when the
\* product is missing too.
GetUserAfterProduct(h, fault) ==
    /\ pc[h] = "getUser"
    /\ UNCHANGED <<domainVars, queryVars, ctx>>
    /\ UNCHANGED <<impl, users, products, orders, stock0, nCalls>>
    /\ LET r == UserRepoGetByID(cmd[h].UserID, fault)
           log == Logged(h, "UserRepo.GetByID", r.err)
       IN  IF r.err # NoErr
           THEN Return(h, IF cmd[h].ProductID \in DOMAIN products
                          THEN ErrUserNotFound ELSE ErrProductNotFound,
                       log, p[h], o[h])
           ELSE /\ u' = [u EXCEPT ![h] = r.val]
                /\ calls' = [calls EXCEPT ![h] = log]
                /\ pc' = [pc EXCEPT ![h] = "getProduct"]
                /\ UNCHANGED <<cmd, p, o, pre, solo, last>>

\* u, err := h.UserRepo.GetByID(ctx, cmd.UserID)
\* if err != nil { return errors.New("user not found") }
GetUser(h, fault) ==
    /\ pc[h] = "getUser"
    /\ UNCHANGED <<domainVars, queryVars, ctx>>
    /\ UNCHANGED <<impl, users, products, orders, stock0, nCalls>>
    /\ LET r == UserRepoGetByID(cmd[h].UserID, fault)
           log == Logged(h, "UserRepo.GetByID", r.err)
       IN  IF r.err # NoErr
           THEN Return(h, ErrUserNotFound, log, p[h], o[h])
           ELSE /\ u' = [u EXCEPT ![h] = r.val]
                /\ calls' = [calls EXCEPT ![h] = log]
                /\ pc' = [pc EXCEPT ![h] = "getProduct"]
                /\ UNCHANGED <<cmd, p, o, pre, solo, last>>

\* A product lookup that is tried a second time when it fails.
GetProductRetry(h, fault) ==
    /\ pc[h] = "getProduct"
    /\ UNCHANGED <<domainVars, queryVars, ctx>>
    /\ UNCHANGED <<impl, users, products, orders, stock0, nCalls>>
    /\ LET r == ProductRepoGetByID(cmd[h].ProductID, fault)
           log == Logged(h, "ProductRepo.GetByID", r.err)
       IN  IF r.err # NoErr /\ Len(calls[h]) >= 2
           THEN Return(h, ErrProductNotFound, log, p[h], o[h])
           ELSE IF r.err # NoErr
           THEN /\ calls' = [calls EXCEPT ![h] = log]
                /\ UNCHANGED <<pc, p, cmd, u, o, pre, solo, last>>
           ELSE /\ p' = [p EXCEPT ![h] = r.val]
                /\ calls' = [calls EXCEPT ![h] = log]
                /\ pc' = [pc EXCEPT ![h] = "reserve"]
                /\ UNCHANGED <<cmd, u, o, pre, solo, last>>

\* p, err := h.ProductRepo.GetByID(ctx, cmd.ProductID)
\* if err != nil { return errors.New("product not found") }
GetProduct(h, fault) ==
    /\ pc[h] = "getProduct"
    /\ UNCHANGED <<domainVars, queryVars, ctx>>
    /\ UNCHANGED <<impl, users, products, orders, stock0, nCalls>>
    /\ LET r == ProductRepoGetByID(cmd[h].ProductID, fault)
           log == Logged(h, "ProductRepo.GetByID", r.err)
       IN  IF r.err # NoErr
           THEN Return(h, ErrProductNotFound, log, p[h], o[h])
           ELSE /\ p' = [p EXCEPT ![h] = r.val]
                /\ calls' = [calls EXCEPT ![h] = log]
                /\ pc' = [pc EXCEPT ![h] = "reserve"]
                /\ UNCHANGED <<cmd, u, o, pre, solo, last>>

\* Handle that saves the order right after building it, the stock update
\* left out.
ReserveAndCreateThenSave(h) ==
    /\ pc[h] = "reserve"
    /\ UNCHANGED <<domainVars, queryVars, ctx>>
    /\ UNCHANGED <<impl, users, orders, stock0, nCalls>>
    /\ LET r == Reserve(Deref(p[h]), cmd[h].Quantity)
           ref == IF p[h].ref = "stored" THEN p[h] ELSE [p[h] EXCEPT !.val = r.p]
       IN  /\ products' = IF p[h].ref = "stored"
                          THEN [products EXCEPT ![p[h].id] = r.p]
                          ELSE products
           /\ IF r.err # NoErr
              THEN Return(h, r.err, calls[h], ref, o[h])
              ELSE /\ p' = [p EXCEPT ![h] = ref]
                   /\ o' = [o EXCEPT ![h] =
                              Confirm(NewOrder(u[h].ID, r.p.ID, cmd[h].Quantity))]
                   /\ pc' = [pc EXCEPT ![h] = "save"]
                   /\ UNCHANGED <<cmd, u, calls, pre, solo, last>>

\* if err := p.Reserve(cmd.Quantity); err != nil { return err }
\* o := orderDomain.NewOrder(u.ID, p.ID, cmd.Quantity); o.Confirm()
\* Reserve writes through the pointer: into the call's own struct, or into
\* the struct the mock's map holds.  No collaborator is called in these lines.
ReserveAndCreate(h) ==
    /\ pc[h] = "reserve"
    /\ UNCHANGED <<domainVars, queryVars, ctx>>
    /\ UNCHANGED <<impl, users, orders, stock0, nCalls>>
    /\ LET r == Reserve(Deref(p[h]), cmd[h].Quantity)
           ref == IF p[h].ref = "stored" THEN p[h] ELSE [p[h] EXCEPT !.val = r.p]
       IN  /\ products' = IF p[h].ref = "stored"
                          THEN [products EXCEPT ![p[h].id] = r.p]
                          ELSE products
           /\ IF r.err # NoErr
              THEN Return(h, r.err, calls[h], ref, o[h])
              ELSE /\ p' = [p EXCEPT ![h] = ref]
                   /\ o' = [o EXCEPT ![h] =
                              Confirm(NewOrder(u[h].ID, r.p.ID, cmd[h].Quantity))]
                   /\ pc' = [pc EXCEPT ![h] = "updateStock"]
                   /\ UNCHANGED <<cmd, u, calls, pre, solo, last>>

\* UpdateStock whose error is dropped: Handle goes on to Save.
UpdateStockIgnoreErr(h, fault) ==
    /\ pc[h] = "updateStock"
    /\ UNCHANGED <<domainVars, queryVars, ctx>>
    /\ UNCHANGED <<impl, users, orders, stock0, nCalls>>
    /\ LET r == ProductRepoUpdateStock(p[h], fault)
       IN  /\ products' = r.products
           /\ calls' = [calls EXCEPT ![h] = Logged(h, "ProductRepo.UpdateStock", r.err)]
           /\ pc' = [pc EXCEPT ![h] = "save"]
           /\ UNCHANGED <<cmd, u, p, o, pre, solo, last>>

\* if err := h.ProductRepo.UpdateStock(ctx, p); err != nil { return err }
UpdateStock(h, fault) ==
    /\ pc[h] = "updateStock"
    /\ UNCHANGED <<domainVars, queryVars, ctx>>
    /\ UNCHANGED <<impl, users, orders, stock0, nCalls>>
    /\ LET r == ProductRepoUpdateStock(p[h], fault)
           log == Logged(h, "ProductRepo.UpdateStock", r.err)
       IN  /\ products' = r.products
           /\ IF r.err # NoErr
              THEN Return(h, r.err, log, p[h], o[h])
              ELSE /\ calls' = [calls EXCEPT ![h] = log]
                   /\ pc' = [pc EXCEPT ![h] = "save"]
                   /\ UNCHANGED <<cmd, u, p, o, pre, solo, last>>

\* Save that writes the stock of before the call back when it fails.
SaveOrderRollback(h, fault) ==
    /\ pc[h] = "save"
    /\ UNCHANGED <<domainVars, queryVars, ctx>>
    /\ UNCHANGED <<impl, users, stock0, nCalls>>
    /\ LET r == OrderRepoSave(o[h], fault)
       IN  /\ orders' = r.orders
           /\ products' = IF r.err # NoErr
                          THEN [products EXCEPT ![cmd[h].ProductID] =
                                   pre[h].products[cmd[h].ProductID]]
                          ELSE products
           /\ Return(h, r.err, Logged(h, "OrderRepo.Save", r.err), p[h], r.o)

\* return h.OrderRepo.Save(ctx, o)
SaveOrder(h, fault) ==
    /\ pc[h] = "save"
    /\ UNCHANGED <<domainVars, queryVars, ctx>>
    /\ UNCHANGED <<impl, users, products, stock0, nCalls>>
    /\ LET r == OrderRepoSave(o[h], fault)
       IN  /\ orders' = r.orders
           /\ Return(h, r.err, Logged(h, "OrderRepo.Save", r.err), p[h], r.o)

Next ==
    \/ \E h \in Handlers, c \in Commands : Start(h, c)
    \/ \E h \in Handlers, f \in {NoErr, ErrUserRepo} : GetUser(h, f)
    \/ \E h \in Handlers, f \in {NoErr, ErrProductRepo} : GetProduct(h, f)
    \/ \E h \in Handlers : ReserveAndCreate(h)
    \/ \E h \in Handlers, f \in {NoErr, ErrProductRepo} : UpdateStock(h, f)
    \/ \E h \in Handlers, f \in {NoErr, ErrOrderRepo} : SaveOrder(h, f)

Spec == Init /\ [][Next]_vars

(***************************************************************************)
(* The domain operations on their own: Reserve is applied to a Product,    *)
(* NewOrder and Confirm to an Order, with every argument and in every      *)
(* state of the object; no handler is constructed.                         *)
(***************************************************************************)
\* int64 ids handed to NewOrder: negative, zero, positive.
ArgIDs == {-1, 0, 1}
\* Status is a plain string field: the zero value, the two values the code
\* writes, and one it never writes.
Statuses == {"", "PENDING", "CONFIRMED", "CANCELLED"}

HandlerIdle ==
    /\ impl = "gorm"
    /\ users = <<>>
    /\ products = <<>>
    /\ stock0 = <<>>
    /\ orders = {}
    /\ pc = [h \in Handlers |-> "idle"]
    /\ cmd = [h \in Handlers |-> NoCommand]
    /\ u = [h \in Handlers |-> NoUser]
    /\ p = [h \in Handlers |-> NilRef]
    /\ o = [h \in Handlers |-> NoOrder]
    /\ calls = [h \in Handlers |-> <<>>]
    /\ pre = [h \in Handlers |-> NoStorage]
    /\ solo = [h \in Handlers |-> TRUE]
    /\ last = NoCall
    /\ nCalls = 0
    /\ ctx = NoCancel

DomainInit ==
    /\ HandlerIdle
    /\ QueryIdle
    /\ product \in [ID : {1}, Name : {"Test Product"}, Stock : MinInt..MaxInt]
    /\ order \in [ID : {0, 1}, UserID : {1}, ProductID : {1}, Quantity : {-1, 1},
                  Status : Statuses]
    /\ step = NoStep

\* err := product.Reserve(qty)
DomainReserve(qty) ==
    /\ LET r == Reserve(product, qty)
       IN  /\ product' = r.p
           /\ step' = [NoStep EXCEPT !.op = "Reserve", !.qty = qty,
                                     !.product = product, !.err = r.err]
    /\ UNCHANGED <<order, handlerVars, queryVars>>

\* order = NewOrder(uid, pid, qty)
DomainNewOrder(uid, pid, qty) ==
    /\ order' = NewOrder(uid, pid, qty)
    /\ step' = [NoStep EXCEPT !.op = "NewOrder", !.uid = uid, !.pid = pid,
                              !.qty = qty]
    /\ UNCHANGED <<product, handlerVars, queryVars>>

\* order.Confirm(); confirms counts the Confirms in a row, up to two.
DomainConfirm ==
    /\ order' = Confirm(order)
    /\ step' = [NoStep EXCEPT !.op = "Confirm", !.order = order,
                              !.confirms = IF step.op = "Confirm" THEN 2 ELSE 1]
    /\ UNCHANGED <<product, handlerVars, queryVars>>

DomainNext ==
    \/ \E qty \in MinInt..MaxInt : DomainReserve(qty)
    \/ \E uid \in ArgIDs, pid \in ArgIDs, qty \in Quantities :
          DomainNewOrder(uid, pid, qty)
    \/ DomainConfirm

SpecDomain == DomainInit /\ [][DomainNext]_vars

(***************************************************************************)
(* Handle under cancellation.  The caller cancels the ctx of a call that   *)
(* is between two steps.  Handle never reads ctx; it hands it to the       *)
(* collaborators.  The GORM adapters run every statement WithContext(ctx): *)
(* a statement on a cancelled context fails with ctx.Err() and is not      *)
(* executed.  The mocks take ctx and ignore it.                            *)
(***************************************************************************)
\* The caller cancels the context of the call h, which runs alone and has
\* just had a collaborator return (a lookup, or UpdateStock); ctx keeps what
\* the call had invoked and what storage held at that moment.
Cancel(h) ==
    /\ ctx = NoCancel
    /\ pc[h] \in {"getProduct", "reserve", "save"}
    /\ \A g \in Handlers \ {h} : ~InFlight(g)
    /\ ctx' = [h |-> h, calls |-> calls[h], storage |-> Storage]
    /\ UNCHANGED <<impl, users, products, orders, stock0, pc, cmd, u, p, o, calls,
                   pre, solo, last, nCalls, domainVars, queryVars>>

\* The error of the storage for a statement of the call h: the database
\* refuses every statement on a cancelled context.
CtxFault(h, fault) ==
    IF ctx.h = h /\ impl = "gorm" THEN ErrCanceled ELSE fault

\* A request arrives; the cancelled call is followed to its return with no
\* new request beside it.
StartUncancelled(h, c) ==
    /\ ctx = NoCancel
    /\ Start(h, c)

NextCancel ==
    \/ \E h \in Handlers, c \in Commands : StartUncancelled(h, c)
    \/ \E h \in Handlers : Cancel(h)
    \/ \E h \in Handlers, f \in {NoErr, ErrUserRepo} : GetUser(h, CtxFault(h, f))
    \/ \E h \in Handlers, f \in {NoErr, ErrProductRepo} : GetProduct(h, CtxFault(h, f))
    \/ \E h \in Handlers : ReserveAndCreate(h)
    \/ \E h \in Handlers, f \in {NoErr, ErrProductRepo} : UpdateStock(h, CtxFault(h, f))
    \/ \E h \in Handlers, f \in {NoErr, ErrOrderRepo} : SaveOrder(h, CtxFault(h, f))

SpecCancel == Init /\ [][NextCancel]_vars

(***************************************************************************)
(* Package query.  A Go string is the sequence of its characters; a field  *)
(* of a filter struct is its name, its `filter` tag and its reflect.Value. *)
(***************************************************************************)
UpperLetters == {"A", "D", "I", "M", "N", "S"}
\* unicode lower case of the letters used
ToLowerChar(c) ==
    CASE c = "A" -> "a" [] c = "D" -> "d" [] c = "I" -> "i"
      [] c = "M" -> "m" [] c = "N" -> "n" [] c = "S" -> "s"
      [] OTHER -> c
ToLower(str) == [i \in 1..Len(str) |-> ToLowerChar(str[i])]

RECURSIVE Concat(_)
\* strings.Builder: the pieces written, one after the other
Concat(pieces) ==
    IF pieces = <<>> THEN <<>> ELSE Head(pieces) \o Concat(Tail(pieces))

\* func toSnakeCase(str string) string
toSnakeCase(str) ==
    ToLower(Concat([i \in 1..Len(str) |->
                      IF i > 1 /\ str[i] \in UpperLetters
                      THEN <<"_", str[i]>>
                      ELSE <<str[i]>>]))

RECURSIVE Split(_, _)
\* strings.Split(s, sep) for a one-character sep
Split(s, sep) ==
    IF \A i \in 1..Len(s) : s[i] # sep
    THEN <<s>>
    ELSE LET i == CHOOSE k \in 1..Len(s) :
                      s[k] = sep /\ \A j \in 1..(k - 1) : s[j] # sep
         IN  <<SubSeq(s, 1, i - 1)>> \o Split(SubSeq(s, i + 1, Len(s)), sep)

RECURSIVE TrimSpace(_)
\* strings.TrimSpace
TrimSpace(s) ==
    IF s = <<>> THEN s
    ELSE IF Head(s) = " " THEN TrimSpace(Tail(s))
    ELSE IF s[Len(s)] = " " THEN TrimSpace(SubSeq(s, 1, Len(s) - 1))
    ELSE s

\* Operator constants, and ILIKE, which the README lists and filter.go
\* does not define.
OperatorEquals == <<"=">>
OperatorContains == <<"C", "O", "N", "T", "A", "I", "N", "S">>
OperatorGreaterOrEqual == <<">", "=">>
OperatorIn == <<"I", "N">>
OperatorILike == <<"I", "L", "I", "K", "E">>

\* reflect.Value of a field: its Kind, whether it is nil (pointer, slice) and
\* what it holds (for a pointer: what it points to).
StringValue(s) == [kind |-> "string", nil |-> FALSE, v |-> s]
IntValue(n) == [kind |-> "int", nil |-> FALSE, v |-> n]
BoolValue(b) == [kind |-> "bool", nil |-> FALSE, v |-> b]
NilPointer == [kind |-> "ptr", nil |-> TRUE, v |-> FALSE]
PointerTo(b) == [kind |-> "ptr", nil |-> FALSE, v |-> b]
NilSlice == [kind |-> "slice", nil |-> TRUE, v |-> <<>>]
SliceOf(s) == [kind |-> "slice", nil |-> FALSE, v |-> s]

\* isZeroValue that looks through a pointer at what it points to.
isZeroValueThroughPointer(val) ==
    CASE val.kind = "slice" -> val.nil \/ Len(val.v) = 0
      [] val.kind = "string" -> val.v = <<>>
      [] val.kind = "bool" -> ~val.v
      [] val.kind = "int" -> val.v = 0
      [] val.kind = "ptr" -> val.nil \/ ~val.v

\* func isZeroValue(v reflect.Value) bool
isZeroValue(val) ==
    CASE val.kind = "slice" -> val.nil \/ Len(val.v) = 0
      [] val.kind = "string" -> val.v = <<>>
      [] val.kind = "bool" -> ~val.v
      [] val.kind = "int" -> val.v = 0
      [] val.kind = "ptr" -> val.nil

\* field.CanInterface(): the field is exported, its name begins in upper case.
CanInterface(field) == field.name[1] \in UpperLetters

\* The FilterField ApplyFilters makes of one field (lines 117-139).
FilterOf(field) ==
    LET filterTag == IF field.tag = <<>> THEN toSnakeCase(field.name) ELSE field.tag
        parts == Split(filterTag, ",")
    IN  [ColumnName |-> parts[1],
         Operator |-> IF Len(parts) > 1 THEN TrimSpace(parts[2]) ELSE OperatorEquals,
         Value |-> field.value]

RECURSIVE FiltersOf(_)
\* The filters ApplyFilters appends for the fields of a struct, in field order.
FiltersOf(fields) ==
    IF fields = <<>> THEN <<>>
    ELSE (IF CanInterface(Head(fields)) /\ ~isZeroValue(Head(fields).value)
          THEN <<FilterOf(Head(fields))>>
          ELSE <<>>) \o FiltersOf(Tail(fields))

\* The characters of the table's names, and the names themselves.
NameOf(i) ==
    CASE i = 1 -> <<"a", "b">>
      [] i = 2 -> <<"A">>
      [] i = 3 -> <<"b">>
      [] OTHER -> <<"a">>

\* TestProduct rows, as inserted: ids 1..n.
MaxRows == 4
TableOf(n) == [i \in 1..n |-> [id |-> i, name |-> NameOf(i), stock |-> i % 2]]

ColumnID == <<"i", "d">>
ColumnName == <<"n", "a", "m", "e">>
ColumnStock == <<"s", "t", "o", "c", "k">>
\* The value a row has in a column ("missing" for a column the table lacks).
ColumnValue(row, col) ==
    CASE col = ColumnID -> IntValue(row.id)
      [] col = ColumnName -> StringValue(row.name)
      [] col = ColumnStock -> IntValue(row.stock)
      [] OTHER -> [kind |-> "missing", nil |-> TRUE, v |-> 0]

RECURSIVE Like(_, _)
\* SQL LIKE: "%" in the pattern stands for any run of characters.
Like(pattern, s) ==
    IF pattern = <<>> THEN s = <<>>
    ELSE IF Head(pattern) = "%"
    THEN Like(Tail(pattern), s) \/ (s # <<>> /\ Like(pattern, Tail(s)))
    ELSE s # <<>> /\ Head(pattern) = Head(s) /\ Like(Tail(pattern), Tail(s))
\* PostgreSQL ILIKE: LIKE without regard to case.
ILike(pattern, s) == Like(ToLower(pattern), ToLower(s))

\* func applyFilter(query, filter): what the WHERE condition it adds says of
\* a row.  CONTAINS asserts filter.Value.(string) and panics on another
\* type; every operator without a case of its own, ILIKE among them, goes
\* into the SQL as it is: "<column> <operator> ?" with the value unchanged.
\* A condition the database cannot evaluate is an error of the query.
applyFilter(filter, row) ==
    LET col == ColumnValue(row, filter.ColumnName)
        val == filter.Value
    IN  IF filter.Operator = OperatorContains
        THEN IF val.kind # "string" THEN "panic"
             ELSE IF col.kind # "string" THEN "error"
             ELSE IF Like(<<"%">> \o val.v \o <<"%">>, col.v) THEN "yes" ELSE "no"
        ELSE IF filter.Operator = OperatorIn
        THEN IF col.kind # "int" \/ val.kind # "slice" THEN "error"
             ELSE IF \E i \in 1..Len(val.v) : val.v[i] = col.v THEN "yes" ELSE "no"
        ELSE IF col.kind = "missing" \/ col.kind # val.kind THEN "error"
        ELSE IF filter.Operator = OperatorEquals
        THEN IF col.v = val.v THEN "yes" ELSE "no"
        ELSE IF filter.Operator = OperatorGreaterOrEqual /\ col.kind = "int"
        THEN IF col.v >= val.v THEN "yes" ELSE "no"
        ELSE IF filter.Operator = OperatorILike /\ col.kind = "string"
        THEN IF ILike(val.v, col.v) THEN "yes" ELSE "no"
        ELSE "error"

\* ORDER BY id ASC / DESC of rows with distinct ids.
SortByID(rows, dir) ==
    [i \in 1..Len(rows) |->
        CHOOSE r \in {rows[k] : k \in 1..Len(rows)} :
            Cardinality({k \in 1..Len(rows) :
                           IF dir = "ASC" THEN rows[k].id < r.id
                           ELSE rows[k].id > r.id}) = i - 1]

Min(a, b) == IF a < b THEN a ELSE b
\* query.Offset(offset).Limit(limit): gorm writes OFFSET only for an offset
\* above zero and LIMIT for a limit of zero or more.
OffsetLimit(rows, offset, limit) ==
    LET from == IF offset > 0 THEN offset ELSE 0
        to == IF limit >= 0 THEN Min(Len(rows), from + limit) ELSE Len(rows)
    IN  IF from >= to THEN <<>> ELSE SubSeq(rows, from + 1, to)

MulInt(a, b) == Wrap(a * b)
AddInt(a, b) == Wrap(a + b)
\* Go's integer division truncates toward zero.
QuoInt(a, b) ==
    Wrap(IF (a >= 0) = (b > 0)
         THEN (IF a >= 0 THEN a ELSE -a) \div (IF b > 0 THEN b ELSE -b)
         ELSE -((IF a >= 0 THEN a ELSE -a) \div (IF b > 0 THEN b ELSE -b)))

\* offset := (qb.pagination.Page - 1) * qb.pagination.PageSize
BuildOffset(pagination) == MulInt(SubInt(pagination.Page, 1), pagination.PageSize)

\* qb.Build().Find(&rows): the rows found, or the error of the query (a
\* condition the database cannot evaluate fails on an empty table too).
Find(builder) ==
    LET verdicts == {applyFilter(builder.filters[i], row) :
                       i \in 1..Len(builder.filters),
                       row \in {table[k] : k \in 1..Len(table)} \cup {TableOf(1)[1]}}
        selected == SelectSeq(table, LAMBDA row :
                        \A i \in 1..Len(builder.filters) :
                            applyFilter(builder.filters[i], row) = "yes")
        sorted == IF builder.sorts = <<>> THEN selected
                  ELSE SortByID(selected, builder.sorts[1].Order)
        paged == IF builder.pagination.set
                 THEN OffsetLimit(sorted, BuildOffset(builder.pagination),
                                  builder.pagination.PageSize)
                 ELSE sorted
    IN  IF "panic" \in verdicts THEN [rows |-> <<>>, err |-> "panic"]
        ELSE IF "error" \in verdicts THEN [rows |-> <<>>, err |-> "SQL error"]
        ELSE [rows |-> paged, err |-> NoErr]

\* func FindWithPagination(db, page, pageSize, result): Count, then the
\* offset and the number of pages, then Offset/Limit/Find.  The division
\* panics for pageSize = 0, after the count and before the rows are fetched.
FindWithPagination(page, pageSize) ==
    LET total == Len(table)
        offset == MulInt(SubInt(page, 1), pageSize)
    IN  IF pageSize = 0
        THEN [op |-> "FindWithPagination", page |-> page, pageSize |-> pageSize,
              panic |-> TRUE, Data |-> <<>>, Total |-> 0, Page |-> 0,
              PageSize |-> 0, TotalPages |-> 0]
        ELSE [op |-> "FindWithPagination", page |-> page, pageSize |-> pageSize,
              panic |-> FALSE,
              Data |-> OffsetLimit(table, offset, pageSize),
              Total |-> total, Page |-> page, PageSize |-> pageSize,
              TotalPages |-> QuoInt(SubInt(AddInt(total, pageSize), 1), pageSize)]

\* The fields filter structs are made of: an exported and an unexported
\* name, tags with and without an operator, with a blank before it, with
\* nothing after the comma, no tag at all; every kind of value, zero and not.
TagName == <<"n", "a", "m", "e">>
TagNameILike == <<"n", "a", "m", "e", ",", "I", "L", "I", "K", "E">>
TagStockGE == <<"s", "t", "o", "c", "k", ",", " ", ">", "=">>
TagNameComma == <<"n", "a", "m", "e", ",">>
FieldValues ==
    {StringValue(<<>>), StringValue(<<"a">>), IntValue(0), IntValue(1),
     BoolValue(FALSE), BoolValue(TRUE), NilPointer, PointerTo(FALSE),
     PointerTo(TRUE), NilSlice, SliceOf(<<>>), SliceOf(<<1>>)}
FieldShapes ==
    {[name |-> <<"N", "a", "m", "e">>, tag |-> TagNameILike],
     [name |-> <<"N", "a", "m", "e">>, tag |-> TagName],
     [name |-> <<"n", "a", "m", "e">>, tag |-> TagName],
     [name |-> <<"M", "i", "n", "S", "t", "o", "c", "k">>, tag |-> TagStockGE],
     [name |-> <<"N", "a", "m", "e">>, tag |-> TagNameComma],
     [name |-> <<"I", "D">>, tag |-> <<>>]}
Fields ==
    {[name |-> s.name, tag |-> s.tag, value |-> v] : s \in FieldShapes, v \in FieldValues}
\* A second field beside the first: one that is filtered on and three that
\* are not.
SecondFields ==
    {[name |-> <<"M", "i", "n", "S", "t", "o", "c", "k">>, tag |-> TagStockGE, value |-> v] :
        v \in {IntValue(1), IntValue(0), SliceOf(<<>>), NilPointer}}
FilterStructs ==
    {<<f>> : f \in Fields} \cup {<<f, g>> : f \in Fields, g \in SecondFields}

QueryInit ==
    /\ HandlerIdle
    /\ DomainIdle
    /\ table \in {TableOf(n) : n \in 0..MaxRows}
    /\ qb = NewQueryBuilder
    /\ found = NoFound

\* qb.ApplyFilters(filterStruct), on a builder without filters.
ApplyFilters(fields) ==
    /\ qb = NewQueryBuilder
    /\ qb' = [qb EXCEPT !.filters = qb.filters \o FiltersOf(fields)]
    /\ found' = [op |-> "ApplyFilters", fields |-> fields, before |-> qb.filters]
    /\ UNCHANGED <<table, handlerVars, domainVars>>

\* qb.AddSort("id", order), once.
AddSort(dir) ==
    /\ qb.sorts = <<>>
    /\ qb' = [qb EXCEPT !.sorts = Append(qb.sorts, [Field |-> ColumnID, Order |-> dir])]
    /\ found' = [op |-> "AddSort"]
    /\ UNCHANGED <<table, handlerVars, domainVars>>

\* qb.SetPagination(page, pageSize), on a builder without filters.
SetPagination(page, pageSize) ==
    /\ qb.filters = <<>>
    /\ ~qb.pagination.set
    /\ qb' = [qb EXCEPT !.pagination =
                 [set |-> TRUE, Page |-> page, PageSize |-> pageSize]]
    /\ found' = [op |-> "SetPagination"]
    /\ UNCHANGED <<table, handlerVars, domainVars>>

\* qb.Build().Find(&rows)
BuildAndFind ==
    /\ LET r == Find(qb)
       IN  found' = [op |-> "Find", rows |-> r.rows, err |-> r.err]
    /\ UNCHANGED <<table, qb, handlerVars, domainVars>>

\* query.FindWithPagination(db, page, pageSize, &rows), db the plain table.
CallFindWithPagination(page, pageSize) ==
    /\ qb = NewQueryBuilder
    /\ found' = FindWithPagination(page, pageSize)
    /\ UNCHANGED <<table, qb, handlerVars, domainVars>>

QueryNext ==
    \/ \E fields \in FilterStructs : ApplyFilters(fields)
    \/ \E dir \in {"ASC", "DESC"} : AddSort(dir)
    \/ \E page \in 1..MaxInt, pageSize \in 1..MaxInt : SetPagination(page, pageSize)
    \/ BuildAndFind
    \/ \E page \in 1..MaxInt, pageSize \in 0..MaxInt :
          CallFindWithPagination(page, pageSize)

SpecQuery == QueryInit /\ [][QueryNext]_vars

(***************************************************************************)
(* Handle called by one caller at a time, for positive quantities.         *)
(***************************************************************************)
\* Handle is entered when no other call is running, with Quantity > 0.
StartSequential(h, c) ==
    /\ \A g \in Handlers : ~InFlight(g)
    /\ c.Quantity > 0
    /\ Start(h, c)

NextSequential ==
    \/ \E h \in Handlers, c \in Commands : StartSequential(h, c)
    \/ \E h \in Handlers, f \in {NoErr, ErrUserRepo} : GetUser(h, f)
    \/ \E h \in Handlers, f \in {NoErr, ErrProductRepo} : GetProduct(h, f)
    \/ \E h \in Handlers : ReserveAndCreate(h)
    \/ \E h \in Handlers, f \in {NoErr, ErrProductRepo} : UpdateStock(h, f)
    \/ \E h \in Handlers, f \in {NoErr, ErrOrderRepo} : SaveOrder(h, f)

SpecSequential == Init /\ [][NextSequential]_vars

(***************************************************************************)
(* Handle over stored users that are active or not.                        *)
(***************************************************************************)
\* Storage as in Init, the stored user's Active flag being either value.
InitActive ==
    /\ DomainIdle
    /\ QueryIdle
    /\ ctx = NoCancel
    /\ impl \in {"gorm", "mock"}
    /\ \E active \in BOOLEAN :
         users = [id \in StoredUserIDs |->
                    [ID |-> id, Active |-> active, Email |-> "test@example.com"]]
    /\ \E s \in 0..MaxStock :
         /\ stock0 = [id \in StoredProductIDs |-> IF id = 1 THEN s ELSE MaxStock]
         /\ products = [id \in StoredProductIDs |->
                          [ID |-> id, Name |-> "Test Product", Stock |-> stock0[id]]]
    /\ orders = {}
    /\ pc = [h \in Handlers |-> "idle"]
    /\ cmd = [h \in Handlers |-> NoCommand]
    /\ u = [h \in Handlers |-> NoUser]
    /\ p = [h \in Handlers |-> NilRef]
    /\ o = [h \in Handlers |-> NoOrder]
    /\ calls = [h \in Handlers |-> <<>>]
    /\ pre = [h \in Handlers |-> NoStorage]
    /\ solo = [h \in Handlers |-> TRUE]
    /\ last = NoCall
    /\ nCalls = 0

\* Handle is entered when no other call is running.
StartAlone(h, c) ==
    /\ \A g \in Handlers : ~InFlight(g)
    /\ Start(h, c)

NextActive ==
    \/ \E h \in Handlers, c \in Commands : StartAlone(h, c)
    \/ \E h \in Handlers, f \in {NoErr, ErrUserRepo} : GetUser(h, f)
    \/ \E h \in Handlers, f \in {NoErr, ErrProductRepo} : GetProduct(h, f)
    \/ \E h \in Handlers : ReserveAndCreate(h)
    \/ \E h \in Handlers, f \in {NoErr, ErrProductRepo} : UpdateStock(h, f)
    \/ \E h \in Handlers, f \in {NoErr, ErrOrderRepo} : SaveOrder(h, f)

SpecActive == InitActive /\ [][NextActive]_vars

TypeOK ==
    /\ impl \in {"gorm", "mock"}
    /\ \A h \in Handlers : pc[h] \in {"idle", "getUser", "getProduct", "reserve",
                                     "updateStock", "save"}
    /\ \A id \in DOMAIN products : products[id].Stock \in MinInt..MaxInt
    /\ nCalls \in 0..MaxCalls


(***************************************************************************)
(* The contract of one Handle call, read off the call that returned last.  *)
(***************************************************************************)
Returned == last.result # "none"

Ops(log) == [i \in 1..Len(log) |-> log[i][1]]
Invoked(log, op) == \E i \in 1..Len(log) : log[i][1] = op
TimesInvoked(log, op) == Cardinality({i \in 1..Len(log) : log[i][1] = op})
NoCollaboratorFailed(log) == \A i \in 1..Len(log) : log[i][2] = NoErr
\* The error the call's invocation of op returned ("none" when not invoked).
ErrOf(log, op) ==
    IF Invoked(log, op)
    THEN log[CHOOSE i \in 1..Len(log) : log[i][1] = op][2]
    ELSE "none"

UserExisted == last.cmd.UserID \in DOMAIN last.pre.users
ProductExisted == last.cmd.ProductID \in DOMAIN last.pre.products
StockBefore == last.pre.products[last.cmd.ProductID].Stock
StockAfter == last.post.products[last.cmd.ProductID].Stock
NewOrders == last.post.orders \ last.pre.orders

HandleInsufficientStock ==
    (/\ Returned /\ last.solo
     /\ UserExisted /\ ProductExisted
     /\ NoCollaboratorFailed(last.calls)
     /\ last.cmd.Quantity > StockBefore)
    => /\ last.result = ErrInsufficientStock
       /\ last.result = Reserve(last.pre.products[last.cmd.ProductID],
                                last.cmd.Quantity).err
       /\ last.post.products = last.pre.products
       /\ last.post.orders = last.pre.orders
       /\ ~Invoked(last.calls, "ProductRepo.UpdateStock")
       /\ ~Invoked(last.calls, "OrderRepo.Save")

HandleInsufficientStockWitness ==
    /\ Returned /\ last.solo
    /\ UserExisted /\ ProductExisted
    /\ last.cmd.Quantity > StockBefore
    /\ last.result = ErrInsufficientStock
    /\ Ops(last.calls) = <<"UserRepo.GetByID", "ProductRepo.GetByID">>

\* C3: a call for a user id that no stored user has fails with "user not
\* found"; the only collaborator it invoked is the user lookup, and when it
\* ran alone users, products and orders in storage are what they were.
HandleUserNotFound ==
    (Returned /\ ~UserExisted)
    => /\ last.result = ErrUserNotFound
       /\ Ops(last.calls) = <<"UserRepo.GetByID">>
       /\ last.post.users = last.pre.users
       /\ last.solo => last.post = last.pre

HandleUserNotFoundWitness ==
    /\ Returned /\ ~UserExisted /\ last.solo
    /\ last.calls = <<<<"UserRepo.GetByID",
                        IF impl = "mock" THEN ErrUserNotFound ELSE ErrRecordNotFound>>>>
    /\ last.result = ErrUserNotFound
    /\ last.post = last.pre

\* C4: a call whose user was found and whose product id no stored product has
\* fails with "product not found"; it invokes neither UpdateStock nor Save,
\* and when it ran alone products and orders in storage are what they were.
HandleProductNotFound ==
    (/\ Returned /\ UserExisted /\ ~ProductExisted
     /\ ErrOf(last.calls, "UserRepo.GetByID") = NoErr)
    => /\ last.result = ErrProductNotFound
       /\ Ops(last.calls) = <<"UserRepo.GetByID", "ProductRepo.GetByID">>
       /\ last.solo => /\ last.post.products = last.pre.products
                       /\ last.post.orders = last.pre.orders

HandleProductNotFoundWitness ==
    /\ Returned /\ UserExisted /\ ~ProductExisted /\ last.solo
    /\ ErrOf(last.calls, "ProductRepo.GetByID") \in {ErrProductNotFound, ErrRecordNotFound}
    /\ last.result = ErrProductNotFound
    /\ last.post = last.pre

\* The in-memory product of the call that returned last, as it was left.
LastProduct ==
    IF last.p.ref = "stored" THEN last.post.products[last.p.id] ELSE last.p.val

Failed(op) == ErrOf(last.calls, op) \notin {"none", NoErr}

HandleUpdateStockFails ==
    (Returned /\ Failed("ProductRepo.UpdateStock"))
    => /\ last.result = ErrOf(last.calls, "ProductRepo.UpdateStock")
       /\ ~Invoked(last.calls, "OrderRepo.Save")
       /\ last.o.ID = 0
       /\ last.o \notin last.post.orders
       /\ last.solo => last.post.orders = last.pre.orders

HandleUpdateStockFailsWitness ==
    /\ Returned /\ last.solo /\ Failed("ProductRepo.UpdateStock")
    /\ last.result = ErrProductRepo
    /\ last.o.Status = "CONFIRMED"
    /\ last.post.orders = last.pre.orders

StockNeverNegative ==
    /\ \A id \in DOMAIN products : products[id].Stock >= 0
    /\ \A h \in Handlers : p[h].ref # "nil" => Deref(p[h]).Stock >= 0

RECURSIVE SumQuantity(_)
SumQuantity(S) ==
    IF S = {} THEN 0
    ELSE LET r == CHOOSE x \in S : TRUE
         IN  r.Quantity + SumQuantity(S \ {r})

ConfirmedOrdersOf(id) ==
    {r \in orders : r.ProductID = id /\ r.Status = "CONFIRMED"}

\* C9: nothing after Reserve looks at the stored stock again.  A call that has
\* passed Reserve on its copy can always write its stock (UpdateStock goes on
\* to Save unless storage fails) and then persist its order and return nil,
\* whatever other calls have persisted meanwhile; so two calls that both
\* passed Reserve before either wrote both succeed, and the quantities of the
\* persisted CONFIRMED orders can exceed the initial stock (the witness).
RaceNotPrevented ==
    \A h \in Handlers :
        /\ pc[h] = "updateStock" =>
              ENABLED (UpdateStock(h, NoErr) /\ pc'[h] = "save"
                       /\ products'[cmd[h].ProductID].Stock = Deref(p[h]).Stock)
        /\ pc[h] = "save" =>
              ENABLED (SaveOrder(h, NoErr) /\ last'.result = NoErr
                       /\ last'.o \in orders')

\* Two persisted orders of positive quantities, each within the initial stock
\* of the product, that together exceed it, the last call having overlapped
\* another and returned nil.
OverbookingReached ==
    \E id \in DOMAIN products :
        /\ Cardinality(ConfirmedOrdersOf(id)) = 2
        /\ \A r \in ConfirmedOrdersOf(id) :
              r.Quantity > 0 /\ r.Quantity <= stock0[id]
        /\ SumQuantity(ConfirmedOrdersOf(id)) > stock0[id]
        /\ Returned /\ ~last.solo /\ last.result = NoErr
        /\ products[id].Stock >= 0

\* C10: every order handed to OrderRepo.Save, and so every stored order, has
\* Status CONFIRMED.
PersistedOrdersConfirmed ==
    /\ \A r \in orders : r.Status = "CONFIRMED"
    /\ \A h \in Handlers : pc[h] = "save" => o[h].Status = "CONFIRMED"
    /\ (Returned /\ Invoked(last.calls, "OrderRepo.Save")) => last.o.Status = "CONFIRMED"

PersistedOrdersConfirmedWitness ==
    /\ Returned /\ last.result = NoErr
    /\ last.o \in orders
    /\ last.o.Status = "CONFIRMED"

(***************************************************************************)
(* Status, number and order of the steps of Handle.                        *)
(***************************************************************************)
\* C11: an order's status only moves forward.  In every step of the program
\* a stored order that is CONFIRMED stays as it is, an order a call holds
\* that is CONFIRMED is still CONFIRMED afterwards (in the call's hands, or
\* as the order the call returns with), every order a step stores is
\* CONFIRMED, and no step leaves an order PENDING: the only status an order
\* changes to is CONFIRMED.
OrderStatusOnlyForward ==
    [][ /\ \A r \in orders : r.Status = "CONFIRMED" => r \in orders'
        /\ \A r \in orders' \ orders : r.Status = "CONFIRMED"
        /\ \A h \in Handlers :
             /\ (InFlight(h) /\ o[h].Status = "CONFIRMED") =>
                   IF pc'[h] # "idle"
                   THEN o'[h].Status = "CONFIRMED"
                   ELSE last'.o.Status = "CONFIRMED"
             /\ o'[h].Status # o[h].Status =>
                   \/ o'[h].Status = "CONFIRMED"
                   \/ pc'[h] = "idle" /\ o'[h] = NoOrder
        /\ last'.o.Status # "PENDING"
      ]_vars

\* A CONFIRMED order is stored while another call holds its own CONFIRMED
\* order, about to save it.
OrderStatusOnlyForwardWitness ==
    /\ \E r \in orders : r.Status = "CONFIRMED"
    /\ \E h \in Handlers : pc[h] = "save" /\ o[h].Status = "CONFIRMED"

CollaboratorOps == {"UserRepo.GetByID", "ProductRepo.GetByID",
                    "ProductRepo.UpdateStock", "OrderRepo.Save"}
\* Every operation at most once, and none after one that returned an error.
OnceAndStopAtError(log) ==
    /\ \A op \in CollaboratorOps : TimesInvoked(log, op) <= 1
    /\ \A i \in 1..(Len(log) - 1) : log[i][2] = NoErr

\* C12: within one Handle call every collaborator operation is invoked at
\* most once and none is invoked after a collaborator or Reserve returned an
\* error (a call still running has seen no error; a call Reserve refused has
\* invoked the two lookups only); OrderRepo.Save is invoked exactly once iff
\* both lookups, Reserve and UpdateStock succeeded.  Reserve's error is the
\* one Handle returns as it is, and for a call that ran alone Reserve
\* succeeds exactly when the stored stock covers the quantity.
HandleInvokesOnce ==
    /\ \A h \in Handlers :
         OnceAndStopAtError(calls[h]) /\ NoCollaboratorFailed(calls[h])
    /\ Returned =>
         /\ OnceAndStopAtError(last.calls)
         /\ last.result = ErrInsufficientStock =>
              Ops(last.calls) = <<"UserRepo.GetByID", "ProductRepo.GetByID">>
         /\ (last.solo /\ ErrOf(last.calls, "ProductRepo.GetByID") = NoErr) =>
              (last.result = ErrInsufficientStock <=> StockBefore < last.cmd.Quantity)
         /\ TimesInvoked(last.calls, "OrderRepo.Save") = 1 <=>
              /\ ErrOf(last.calls, "UserRepo.GetByID") = NoErr
              /\ ErrOf(last.calls, "ProductRepo.GetByID") = NoErr
              /\ last.result # ErrInsufficientStock
              /\ ErrOf(last.calls, "ProductRepo.UpdateStock") = NoErr

\* A call invoked Save, once, after the three operations before it succeeded.
HandleInvokesOnceWitness ==
    /\ Returned
    /\ TimesInvoked(last.calls, "OrderRepo.Save") = 1
    /\ Len(last.calls) = 4
    /\ \A i \in 1..3 : last.calls[i][2] = NoErr

HandleSteps == <<"UserRepo.GetByID", "ProductRepo.GetByID",
                 "ProductRepo.UpdateStock", "OrderRepo.Save">>
IsPrefix(s, t) == Len(s) <= Len(t) /\ \A i \in 1..Len(s) : s[i] = t[i]
\* The order Handle builds for the call h after Reserve succeeded.
BuiltOrder(h) == [ID |-> 0, UserID |-> cmd[h].UserID, ProductID |-> cmd[h].ProductID,
                  Quantity |-> cmd[h].Quantity, Status |-> "CONFIRMED"]

\* C13: the steps of a Handle call occur in the order user lookup, product
\* lookup, Reserve, NewOrder+Confirm, UpdateStock, Save.  At each position
\* of a running call exactly the operations before it have been invoked;
\* UpdateStock is about to be invoked only with Reserve done (for a call
\* alone so far: the stock covered the quantity and the call's product holds
\* the difference) and the order built and confirmed; Save only after
\* UpdateStock returned no error.  The operations of a returned call are a
\* prefix of the four, in that order.
HandleStepOrder ==
    /\ \A h \in Handlers :
         /\ pc[h] \in {"idle", "getUser"} =>
              calls[h] = <<>> /\ u[h] = NoUser /\ p[h] = NilRef /\ o[h] = NoOrder
         /\ pc[h] = "getProduct" =>
              /\ Ops(calls[h]) = SubSeq(HandleSteps, 1, 1)
              /\ u[h].ID = cmd[h].UserID /\ p[h] = NilRef /\ o[h] = NoOrder
         /\ pc[h] = "reserve" =>
              /\ Ops(calls[h]) = SubSeq(HandleSteps, 1, 2)
              /\ p[h].id = cmd[h].ProductID /\ o[h] = NoOrder
         /\ pc[h] = "updateStock" =>
              /\ Ops(calls[h]) = SubSeq(HandleSteps, 1, 2)
              /\ o[h] = BuiltOrder(h)
              /\ solo[h] =>
                   /\ pre[h].products[cmd[h].ProductID].Stock >= cmd[h].Quantity
                   /\ Deref(p[h]).Stock =
                        SubInt(pre[h].products[cmd[h].ProductID].Stock, cmd[h].Quantity)
         /\ pc[h] = "save" =>
              /\ Ops(calls[h]) = SubSeq(HandleSteps, 1, 3)
              /\ ErrOf(calls[h], "ProductRepo.UpdateStock") = NoErr
              /\ o[h] = BuiltOrder(h)
    /\ Returned =>
         /\ IsPrefix(Ops(last.calls), HandleSteps)
         /\ Invoked(last.calls, "ProductRepo.UpdateStock") =>
              /\ last.result # ErrInsufficientStock
              /\ last.o.Status = "CONFIRMED"
         /\ Invoked(last.calls, "OrderRepo.Save") =>
              ErrOf(last.calls, "ProductRepo.UpdateStock") = NoErr

\* A call is about to invoke Save, the three operations before it invoked in
\* order.
HandleStepOrderWitness ==
    \E h \in Handlers :
        /\ pc[h] = "save"
        /\ Ops(calls[h]) = <<"UserRepo.GetByID", "ProductRepo.GetByID",
                             "ProductRepo.UpdateStock">>

LookupErrorReplaced ==
    Returned =>
        /\ ErrOf(last.calls, "UserRepo.GetByID") \notin {"none", NoErr} =>
             /\ last.result = ErrUserNotFound
             /\ ErrOf(last.calls, "UserRepo.GetByID") # ErrUserNotFound =>
                  last.result # ErrOf(last.calls, "UserRepo.GetByID")
             /\ Ops(last.calls) = <<"UserRepo.GetByID">>
             /\ last.p = NilRef /\ last.o = NoOrder
             /\ last.solo => last.post = last.pre
        /\ ErrOf(last.calls, "ProductRepo.GetByID") \notin {"none", NoErr} =>
             /\ last.result = ErrProductNotFound
             /\ ErrOf(last.calls, "ProductRepo.GetByID") # ErrProductNotFound =>
                  last.result # ErrOf(last.calls, "ProductRepo.GetByID")
             /\ Ops(last.calls) = <<"UserRepo.GetByID", "ProductRepo.GetByID">>
             /\ last.p = NilRef /\ last.o = NoOrder
             /\ last.solo => last.post = last.pre

\* The user repository failed for a stored user, and Handle said 'user not
\* found'.
LookupErrorReplacedWitness ==
    /\ Returned
    /\ UserExisted
    /\ ErrOf(last.calls, "UserRepo.GetByID") = ErrUserRepo
    /\ last.result = ErrUserNotFound

\* C16: a command with quantity <= 0, for an existing user and a product
\* with stock >= 0, in a call that ran alone with no failing collaborator:
\* Handle succeeds, persists one CONFIRMED order with that quantity, and the
\* persisted stock is stock - quantity, so larger than before for a
\* negative quantity and the same for zero.
NonPositiveQuantityRaisesStock ==
    ( /\ Returned /\ last.solo
      /\ UserExisted /\ ProductExisted
      /\ StockBefore >= 0
      /\ last.cmd.Quantity <= 0
      /\ NoCollaboratorFailed(last.calls) ) =>
        /\ last.result = NoErr
        /\ \E ord \in NewOrders :
             /\ NewOrders = {ord}
             /\ ord.Status = "CONFIRMED"
             /\ ord.Quantity = last.cmd.Quantity
        /\ StockAfter = StockBefore - last.cmd.Quantity
        /\ last.cmd.Quantity < 0 => StockAfter > StockBefore
        /\ last.cmd.Quantity = 0 => StockAfter = StockBefore

(***************************************************************************)
(* Identity of orders, NewOrder and Confirm on their own, frame of Handle. *)
(***************************************************************************)
\* C17: the order a successful Handle persisted has a non-zero ID given by
\* the storage, while the order a call holds has ID 0 from NewOrder until
\* Save (and still 0 when the call fails); the persisted orders have
\* pairwise distinct IDs, and every order persisted before a call is still
\* there, unchanged, after it (a failed call that ran alone adds none).
OrderIdentity ==
    /\ \A r \in orders : r.ID # 0
    /\ \A r1 \in orders, r2 \in orders : r1.ID = r2.ID => r1 = r2
    /\ \A h \in Handlers : o[h].ID = 0
    /\ Returned =>
         /\ last.pre.orders \subseteq last.post.orders
         /\ last.post.orders \subseteq orders
         /\ IF last.result = NoErr
            THEN /\ last.o.ID # 0
                 /\ last.o \in last.post.orders
                 /\ \A r \in last.pre.orders : r.ID # last.o.ID
            ELSE /\ last.o.ID = 0
                 /\ last.solo => last.post.orders = last.pre.orders

\* A second order was persisted next to the first.
OrderIdentityWitness ==
    /\ Returned
    /\ last.result = NoErr
    /\ last.pre.orders # {}
    /\ Cardinality(orders) = 2

\* C18: NewOrder(userID, productID, quantity) returns an order with Status
\* PENDING, ID 0 and UserID, ProductID, Quantity equal to the arguments,
\* whatever they are: zero and negative ones included.
NewOrderContract ==
    step.op = "NewOrder" =>
        order = [ID |-> 0, UserID |-> step.uid, ProductID |-> step.pid,
                 Quantity |-> step.qty, Status |-> "PENDING"]

\* NewOrder was given a zero id, a negative id and the least quantity.
NewOrderContractWitness ==
    /\ step.op = "NewOrder"
    /\ step.uid = 0 /\ step.pid < 0 /\ step.qty = MinInt
    /\ order.Quantity = MinInt

\* C19: Confirm is idempotent and callable in any state: after it the
\* Status is CONFIRMED whatever it was, no other field has changed, a
\* second Confirm in a row leaves the order as the first left it, and so
\* would one more.
ConfirmIdempotent ==
    step.op = "Confirm" =>
        /\ order.Status = "CONFIRMED"
        /\ order = [ID |-> step.order.ID, UserID |-> step.order.UserID,
                    ProductID |-> step.order.ProductID,
                    Quantity |-> step.order.Quantity, Status |-> "CONFIRMED"]
        /\ step.confirms = 2 => order = step.order
        /\ Confirm(order) = order

\* Confirm was called twice in a row on an order that was neither PENDING
\* nor new.
ConfirmIdempotentWitness ==
    /\ step.op = "Confirm"
    /\ step.confirms = 2
    /\ order.ID = 1
    /\ order.Status = "CONFIRMED"

\* C20: no step of a Handle call writes a user; a step changes a stored
\* product only if the call taking the step was given that product's id,
\* and then ID and Name stay: only Stock changes.  No product is added or
\* removed.
HandleFrame ==
    [][ /\ users' = users
        /\ DOMAIN products' = DOMAIN products
        /\ \A id \in DOMAIN products :
             products'[id] # products[id] =>
                 /\ \E h \in Handlers :
                      InFlight(h) /\ pc'[h] # pc[h] /\ cmd[h].ProductID = id
                 /\ products'[id].ID = products[id].ID
                 /\ products'[id].Name = products[id].Name
      ]_vars

\* A call changed the stock of its product; the other product and the users
\* are as before.
HandleFrameWitness ==
    /\ Returned
    /\ ProductExisted
    /\ StockAfter # StockBefore
    /\ last.post.users = last.pre.users
    /\ \A id \in DOMAIN last.pre.products \ {last.cmd.ProductID} :
           last.post.products[id] = last.pre.products[id]

(***************************************************************************)
(* Cancellation.                                                           *)
(***************************************************************************)
\* C21: once the caller has cancelled a call at a collaborator boundary,
\* Handle aborts before the next step: the call invokes no further
\* collaborator operation (its log stays the one it had when it was
\* cancelled, until and after it returns) and nothing is written (storage
\* stays as it was at the cancellation).
CancelledCallStops ==
    ctx.h # 0 =>
        /\ (IF InFlight(ctx.h) THEN calls[ctx.h] ELSE last.calls) = ctx.calls
        /\ Storage = ctx.storage

\* The values the claim calls zero: "", 0, false, a nil pointer, a nil slice
\* and an empty slice.
ZeroValues ==
    {StringValue(<<>>), IntValue(0), BoolValue(FALSE), NilPointer, NilSlice, SliceOf(<<>>)}
\* What each tag of the model says: its column, and its operator if it has
\* one.  The untagged field is ID, whose name toSnakeCase turns into i_d.
TagColumn(field) ==
    CASE field.tag = <<>> -> <<"i", "_", "d">>
      [] field.tag = TagStockGE -> <<"s", "t", "o", "c", "k">>
      [] OTHER -> <<"n", "a", "m", "e">>
TagOperator(field) ==
    CASE field.tag = TagNameILike -> <<"I", "L", "I", "K", "E">>
      [] field.tag = TagStockGE -> <<">", "=">>
      [] field.tag = TagNameComma -> <<>>
      [] OTHER -> <<"=">>
Filtered(field) == field.name # <<"n", "a", "m", "e">> /\ field.value \notin ZeroValues
ExpectedFilters(fields) ==
    LET kept == SelectSeq(fields, Filtered)
    IN  [i \in 1..Len(kept) |->
            [ColumnName |-> TagColumn(kept[i]), Operator |-> TagOperator(kept[i]),
             Value |-> kept[i].value]]

ContainsFold(s, v) ==
    \E i \in 1..(Len(s) - Len(v) + 1) :
        ToLower(SubSeq(s, i, i + Len(v) - 1)) = ToLower(v)
\* The query that was run had the one filter `name ILIKE v`, v a string.
ILikeQuery ==
    /\ found.op = "Find"
    /\ Len(qb.filters) = 1
    /\ qb.filters[1].ColumnName = <<"n", "a", "m", "e">>
    /\ qb.filters[1].Operator = <<"I", "L", "I", "K", "E">>
    /\ qb.filters[1].Value.kind = "string"
    /\ qb.sorts = <<>>

\* C23: a query with the one filter `name ILIKE v` finds, without an error,
\* exactly the rows whose name contains v as a substring, letter case aside.
ILikeIsContains ==
    ILikeQuery =>
        /\ found.err = NoErr
        /\ found.rows = SelectSeq(table,
                            LAMBDA row : ContainsFold(row.name, qb.filters[1].Value.v))

\* The query that was run was sorted by id and paginated, without filters.
PagedQuery ==
    /\ found.op = "Find"
    /\ qb.filters = <<>>
    /\ qb.sorts # <<>>
    /\ qb.pagination.set
\* The rows at sorted positions (page-1)*pageSize+1 .. page*pageSize, as far
\* as there are rows.
PageOf(rows, page, pageSize) ==
    SubSeq(rows, (page - 1) * pageSize + 1, Min(page * pageSize, Len(rows)))

\* C24: a query sorted by id with SetPagination(page, pageSize), page >= 1
\* and pageSize >= 1, finds exactly the rows at sorted positions
\* (page-1)*pageSize+1 through page*pageSize, fewer or none where the table
\* ends.
PageIsItsSlice ==
    PagedQuery =>
        /\ found.err = NoErr
        /\ found.rows = PageOf(SortByID(table, qb.sorts[1].Order),
                               qb.pagination.Page, qb.pagination.PageSize)
\* The same, for the pages whose offset (page-1)*pageSize is an int.
PageIsItsSliceWithinInt ==
    PagedQuery /\ (qb.pagination.Page - 1) * qb.pagination.PageSize <= MaxInt =>
        /\ found.err = NoErr
        /\ found.rows = PageOf(SortByID(table, qb.sorts[1].Order),
                               qb.pagination.Page, qb.pagination.PageSize)
PageIsItsSliceWithinIntWitness ==
    /\ PagedQuery
    /\ qb.pagination.Page = 2
    /\ qb.pagination.PageSize = 2
    /\ qb.sorts[1].Order = "DESC"
    /\ Len(table) = 3
    /\ found.rows = <<table[1]>>

\* The ceiling of total / pageSize, pageSize >= 1.
CeilDiv(total, pageSize) ==
    CHOOSE k \in 0..total : k * pageSize >= total /\ (k = 0 \/ (k - 1) * pageSize < total)
PaginatedResultAsDocumented ==
    IF found.pageSize = 0 THEN found.panic
    ELSE /\ ~found.panic
         /\ found.Total = Len(table)
         /\ found.Page = found.page
         /\ found.PageSize = found.pageSize
         /\ found.TotalPages = CeilDiv(Len(table), found.pageSize)
         /\ Len(found.Data) <= found.pageSize

\* C25: FindWithPagination with pageSize >= 1 returns Total = the number of
\* rows, Page and PageSize = its arguments, TotalPages = the ceiling of
\* Total / pageSize (0 for no rows) and at most pageSize rows in Data; with
\* pageSize = 0 it panics on the division.
FindWithPaginationResult ==
    found.op = "FindWithPagination" => PaginatedResultAsDocumented
\* The same, for the calls in which Total + pageSize - 1 is an int64.
FindWithPaginationResultWithinInt ==
    found.op = "FindWithPagination" /\ Len(table) + found.pageSize - 1 <= MaxInt
        => PaginatedResultAsDocumented
FindWithPaginationResultWithinIntWitness ==
    /\ found.op = "FindWithPagination"
    /\ Len(table) = 3
    /\ found.pageSize = 2
    /\ found.page = 2
    /\ found.TotalPages = 2
    /\ found.Data = <<table[3]>>
FindWithPaginationPanics ==
    /\ found.op = "FindWithPagination"
    /\ found.pageSize = 0
    /\ found.panic

\* Persisted stock of a product plus the quantities of the persisted orders
\* for it, in a storage state.
Ledger(st, id) ==
    st.products[id].Stock + SumQuantity({r \in st.orders : r.ProductID = id})
Idle == \A h \in Handlers : ~InFlight(h)
\* What the call that returned last took from the ledger of product id, given
\* whether it lost its quantity.
LedgerAfterLast(id, lost) ==
    Ledger(last.post, id) =
        Ledger(last.pre, id)
            - (IF id = last.cmd.ProductID /\ lost THEN last.cmd.Quantity ELSE 0)

OrdersFor(id) == {r \in orders : r.ProductID = id}
\* Two calls, the last of which overlapped the other, have both returned nil
\* and stored their orders for product id, of positive quantities that the
\* initial stock covers together.
BothSucceeded(id) ==
    /\ Idle /\ nCalls = 2
    /\ Returned /\ ~last.solo /\ last.result = NoErr
    /\ Cardinality(OrdersFor(id)) = 2
    /\ \A r \in OrdersFor(id) : r.Quantity > 0
    /\ SumQuantity(OrdersFor(id)) <= stock0[id]

\* C27: on the database, a call about to update the stock holds its own copy
\* of the product, and UpdateStock succeeds and sets the row's stock to the
\* copy's Stock whatever the row holds by then, also when another call has
\* written the row since the copy was read.  So when two overlapping calls
\* have both stored their orders, the stock left is the initial stock minus
\* one call's quantity (an update was lost) or minus both.
LostUpdate ==
    /\ \A h \in Handlers :
         (impl = "gorm" /\ pc[h] = "updateStock") =>
            /\ p[h].ref = "own"
            /\ ProductRepoUpdateStock(p[h], NoErr).err = NoErr
            /\ ProductRepoUpdateStock(p[h], NoErr).products =
                  [products EXCEPT ![p[h].id].Stock = p[h].val.Stock]
    /\ \A id \in DOMAIN products :
         (impl = "gorm" /\ BothSucceeded(id)) =>
            \/ \E r \in OrdersFor(id) : products[id].Stock = stock0[id] - r.Quantity
            \/ products[id].Stock = stock0[id] - SumQuantity(OrdersFor(id))

\* Both calls succeeded and stored their orders, and the stock is the initial
\* stock minus the quantity of one of them only.
LostUpdateReached ==
    /\ impl = "gorm"
    /\ \E id \in DOMAIN products :
         /\ BothSucceeded(id)
         /\ products[id].Stock > stock0[id] - SumQuantity(OrdersFor(id))
         /\ \E r \in OrdersFor(id) : products[id].Stock = stock0[id] - r.Quantity

UserLookupFailed == ~UserExisted \/ Failed("UserRepo.GetByID")
ProductLookupFailed == ~ProductExisted \/ Failed("ProductRepo.GetByID")

\* C28: the error Handle returns is that of the earliest step that fails,
\* whatever would fail after it, and no step after that one runs.  A failed
\* user lookup gives "user not found" also when the product is missing or
\* the quantity exceeds every stock; otherwise a failed product lookup gives
\* "product not found" whatever the quantity; otherwise (for a call that ran
\* alone) a quantity above the stock gives Reserve's error with neither
\* write invoked; otherwise a failed UpdateStock gives its error with Save
\* not invoked; otherwise a failed Save gives its error; and nil is returned
\* only when no step failed.
HandleErrorPrecedence ==
    Returned =>
        /\ UserLookupFailed =>
              /\ last.result = ErrUserNotFound
              /\ Ops(last.calls) = <<"UserRepo.GetByID">>
        /\ (~UserLookupFailed /\ ProductLookupFailed) =>
              /\ last.result = ErrProductNotFound
              /\ Ops(last.calls) = <<"UserRepo.GetByID", "ProductRepo.GetByID">>
        /\ (~UserLookupFailed /\ ~ProductLookupFailed /\ last.solo
            /\ last.cmd.Quantity > StockBefore) =>
              /\ last.result = ErrInsufficientStock
              /\ Ops(last.calls) = <<"UserRepo.GetByID", "ProductRepo.GetByID">>
        /\ Failed("ProductRepo.UpdateStock") =>
              /\ ~UserLookupFailed /\ ~ProductLookupFailed
              /\ last.result = ErrOf(last.calls, "ProductRepo.UpdateStock")
              /\ ~Invoked(last.calls, "OrderRepo.Save")
        /\ Failed("OrderRepo.Save") =>
              /\ ~UserLookupFailed /\ ~ProductLookupFailed
              /\ ~Failed("ProductRepo.UpdateStock")
              /\ last.result = ErrOf(last.calls, "OrderRepo.Save")
        /\ last.result = NoErr =>
              /\ ~UserLookupFailed /\ ~ProductLookupFailed
              /\ NoCollaboratorFailed(last.calls)
              /\ Ops(last.calls) = HandleSteps

\* A call for a user and a product that both do not exist returned "user not
\* found" after the user lookup alone.
HandleErrorPrecedenceWitness ==
    /\ Returned
    /\ ~UserExisted /\ ~ProductExisted
    /\ last.cmd.Quantity > 0
    /\ last.result = ErrUserNotFound
    /\ Ops(last.calls) = <<"UserRepo.GetByID">>

\* The error a call returns, told from the command, the ids of the stored
\* users, the stored products and the storage failures of the call alone.
ResultWithoutActive ==
    IF \/ last.cmd.UserID \notin DOMAIN last.pre.users
       \/ ErrOf(last.calls, "UserRepo.GetByID") = ErrUserRepo
    THEN ErrUserNotFound
    ELSE IF \/ last.cmd.ProductID \notin DOMAIN last.pre.products
            \/ ErrOf(last.calls, "ProductRepo.GetByID") = ErrProductRepo
    THEN ErrProductNotFound
    ELSE IF last.cmd.Quantity > StockBefore THEN ErrInsufficientStock
    ELSE IF ErrOf(last.calls, "ProductRepo.UpdateStock") = ErrProductRepo
    THEN ErrProductRepo
    ELSE IF ErrOf(last.calls, "OrderRepo.Save") = ErrOrderRepo THEN ErrOrderRepo
    ELSE NoErr
\* The stored products after the call, told from the same.
ProductsWithoutActive ==
    IF \/ ResultWithoutActive \in {NoErr, ErrOrderRepo}
       \/ impl = "mock" /\ ResultWithoutActive = ErrProductRepo
    THEN [last.pre.products EXCEPT ![last.cmd.ProductID].Stock =
             SubInt(StockBefore, last.cmd.Quantity)]
    ELSE last.pre.products
\* The stored orders after the call, told from the same.
OrdersWithoutActive ==
    IF ResultWithoutActive = NoErr
    THEN last.pre.orders \cup
            {[ID |-> Cardinality(last.pre.orders) + 1, UserID |-> last.cmd.UserID,
              ProductID |-> last.cmd.ProductID, Quantity |-> last.cmd.Quantity,
              Status |-> "CONFIRMED"]}
    ELSE last.pre.orders

\* C29: what a call returns and what it leaves in storage (stock and orders)
\* is determined by the command, the ids of the stored users, the stored
\* products and orders and the storage failures during the call; the user's
\* Active flag has no part in it, so two storages that differ in that flag
\* alone give the same result, stock and order, and the flag itself is left
\* as it was.
OutcomeIgnoresActive ==
    (Returned /\ last.solo) =>
        /\ last.result = ResultWithoutActive
        /\ last.post.products = ProductsWithoutActive
        /\ last.post.orders = OrdersWithoutActive
        /\ last.post.users = last.pre.users

\* A user who is not active placed an order: the call returned nil and the
\* order is stored, CONFIRMED, under the user's id.
InactiveUserOrdered ==
    /\ Returned /\ last.solo
    /\ UserExisted
    /\ ~last.pre.users[last.cmd.UserID].Active
    /\ last.result = NoErr
    /\ last.cmd.Quantity > 0
    /\ \E r \in NewOrders : r.UserID = last.cmd.UserID /\ r.Status = "CONFIRMED"
    /\ StockAfter = StockBefore - last.cmd.Quantity

=============================================================================
